---- MODULE Spec2Model ----
(***************************************************************************)
(* Verification model of the hybrid-search-service repository:             *)
(*   - the reranker service's admission gate and /rerank handler           *)
(*     (src/reranker/src/reranker_service/api.py),                         *)
(*   - the retrieval service's /query handler and reciprocal rank fusion   *)
(*     (src/retrieval/src/rag_retrieval/api.py),                           *)
(*   - the ingestion pipeline and the chunker                              *)
(*     (src/retrieval/src/rag_retrieval/ingest.py, chunker.py).            *)
(* Each subsystem has its own specification over the shared variables; the *)
(* variables of the other subsystems stay at their initial values.         *)
(***************************************************************************)
EXTENDS Integers, Sequences, FiniteSets, TLC

VARIABLES
    \* ---- reranker service: admission gate ----
    app,              \* "starting" before lifespan has run, then "running"
    gate_settings,    \* reranker Settings: rerank_concurrency, max_docs_per_request
    reranker_loaded,  \* get_reranker()'s lru_cache holds a Reranker
    sem,              \* _rerank_sem: [value, waiters, woken]
    rpc,              \* per request slot: position of the /rerank handler
    ndocs,            \* per request slot: len(request.documents)
    threads,          \* request slots whose worker thread is executing Reranker.rerank
    abandoned,        \* worker threads still executing Reranker.rerank for a cancelled request
    rstatus,          \* per request slot: HTTP status and detail of the answer
    \* ---- reranker service: one /rerank request with its data ----
    h_pc,             \* position of the handler: "start", "scoring", then an answer
    h_req,            \* the request: [n: number of documents, top_k: 0 for None]
    h_scores,         \* scores: what _rerank_async returned, one per document
    h_resp,           \* the answer: status, and for 200 the RerankResponse
    \* ---- retrieval service: reciprocal_rank_fusion on given candidate lists ----
    f_lexical,        \* the lexical candidates: ChunkResult objects [chunk_id, score]
    f_semantic,       \* the semantic candidates
    f_k,              \* the result count asked for
    f_calls,          \* calls of reciprocal_rank_fusion made on these lists
    f_result,         \* what the latest call returned
    f_first,          \* what the first call returned
    \* ---- retrieval service: one /query request ----
    q_env,            \* the process environment Settings.from_env() reads
    q_settings,       \* settings: the retrieval Settings object
    q_req,            \* the request: [blank: query.strip() is empty, k, mode]
    q_pc,             \* position of the handler
    q_lex,            \* run_lexical: "none", "running", "done" or "failed"
    q_emb,            \* embed_async_one: likewise
    q_sem,            \* run_semantic_with_vector: likewise
    q_lexical,        \* what run_lexical returned
    q_semantic,       \* what run_semantic_with_vector returned
    q_resp,           \* the answer: status and results
    \* ---- retrieval service: ingestion runs against the datastore ----
    documents,        \* rows of table documents, in id order
    chunks,           \* rows of table chunks, in id order
    doc_seq,          \* next value of documents.id (SERIAL)
    chunk_seq,        \* next value of chunks.id (BIGSERIAL)
    i_pc,             \* "idle" between runs, "processing" inside the loop of ingest()
    i_settings,       \* the Settings of the running ingest process
    i_results,        \* items the loop of ingest() has still to process
    i_runs,           \* ingestion runs started so far
    i_index,          \* create_vector_index_sync() has run
    i_latest,         \* per source: what chunk_text returned in the latest run over it
    i_parsed,         \* the items the sources that loaded gave the latest run
    i_failed,         \* a source of the latest run failed to download or parse
    \* ---- retrieval service: chunk_text on a given text ----
    c_text,           \* the text: a sequence of words and line ends
    c_size,           \* chunk_size
    c_overlap,        \* chunk_overlap
    c_pc,             \* "input" before the call, "chunked" after it
    c_chunks,         \* what chunk_text returned
    \* ---- retrieval service: upsert_document against table documents ----
    u_documents,      \* rows of table documents, in id order
    u_seq,            \* next value of documents.id (SERIAL)
    u_calls,          \* calls of upsert_document made so far
    u_call,           \* the latest call: its arguments, the id it returned
    u_first,          \* per source_id: the id its first upsert returned, 0 before it
    \* ---- reranker service: startup, /health and the model cache ----
    s_app,            \* "starting" while lifespan() runs, then "running"
    s_cache,          \* the lru_cache of get_reranker: "empty" or "loaded"
    s_warm,           \* the warm-up: "pending", "ok", "load_failed" or "warmup_failed"
    s_probes,         \* GET /health requests answered so far
    s_health,         \* the latest answer of GET /health, "none" before the first
    s_rpc,            \* per client: position of its POST /rerank
    s_rstatus,        \* per client: HTTP status of the answer, 0 before it
    \* ---- retrieval service: the embedding model handle ----
    e_app,            \* "starting" while startup_event() runs, then "running"
    e_concurrency,    \* settings.embed_concurrency
    e_embedder,       \* the global _embedder: 0 for None, else the number of the Embedder object
    e_started,        \* executions of Embedder() begun so far
    e_built,          \* executions of Embedder() that returned an object
    e_permits,        \* permits of embed_semaphore in use
    e_pc,             \* per /query request: position in embed_async_one / _embed_one
    e_handle          \* per /query request: the Embedder its get_embedder() returned, 0 before

gate_vars == <<app, gate_settings, reranker_loaded, sem, rpc, ndocs, threads, abandoned,
               rstatus>>

handler_vars == <<h_pc, h_req, h_scores, h_resp>>

fusion_vars == <<f_lexical, f_semantic, f_k, f_calls, f_result, f_first>>

query_vars == <<q_env, q_settings, q_req, q_pc, q_lex, q_emb, q_sem, q_lexical, q_semantic,
                q_resp>>

ingest_vars == <<documents, chunks, doc_seq, chunk_seq, i_pc, i_settings, i_results, i_runs,
                 i_index, i_latest, i_parsed, i_failed>>

chunker_vars == <<c_text, c_size, c_overlap, c_pc, c_chunks>>

upsert_vars == <<u_documents, u_seq, u_calls, u_call, u_first>>

startup_vars == <<s_app, s_cache, s_warm, s_probes, s_health, s_rpc, s_rstatus>>

embedder_vars == <<e_app, e_concurrency, e_embedder, e_started, e_built, e_permits, e_pc, e_handle>>

vars == <<gate_vars, handler_vars, fusion_vars, query_vars, ingest_vars, chunker_vars, upsert_vars, startup_vars, embedder_vars>>

\* ------------------------------------------------------------------------
\* Bounds
\* ------------------------------------------------------------------------
NumRequests == 3      \* request slots of the reranker service
MaxPermits == 2       \* largest configured rerank_concurrency
MaxDocsCeiling == 3   \* the configured max_docs_per_request
MaxScore == 2         \* reranker scores are drawn from 0..MaxScore
MaxTopK == 4          \* largest top_k of a request
MaxAbandoned == 1     \* abandoned worker threads alive at once
MaxShort == 3         \* short candidate lists: every list without repeats over 1..MaxShort
MaxLong == 11         \* length of the long candidate lists
MaxK == 3             \* largest result count k
MaxCalls == 2         \* calls of reciprocal_rank_fusion on the same lists
MaxRuns == 2          \* ingestion runs
NumSources == 2       \* source records known to the datasets
MaxChunkSize == 3     \* largest configured chunk_size, in tokens
MaxChunkOverlap == 1  \* largest configured chunk_overlap, in tokens
MaxTokens == 5        \* longest text given to chunk_text, in words and line ends
MaxUpserts == 3       \* calls of upsert_document
MaxProbes == 2        \* GET /health requests
NumClients == 2       \* clients of the reranker service after startup
NumQueries == 3       \* concurrent /query requests that embed
MaxEmbedConcurrency == 2  \* largest embed_concurrency tried

Requests == 1..NumRequests

Min(S) == CHOOSE x \in S : \A y \in S : x <= y

Remove(seq, x) == SelectSeq(seq, LAMBDA y : y # x)

\* ------------------------------------------------------------------------
\* Reranker service: the admission gate
\* ------------------------------------------------------------------------
NoAnswer == [status |-> 0, detail |-> <<>>]

\* asyncio.Semaphore.locked(): no permit left, or somebody already queues
SemLocked(s) == s.value = 0 \/ Len(s.waiters) > 0

\* waiters whose future has not been given a result yet
NotDone(s) == {i \in 1..Len(s.waiters) : s.waiters[i] \notin s.woken}

\* asyncio.Semaphore._wake_up_next(): hand one permit to the first waiter
\* whose future is not done
WakeUpNext(s) ==
    IF NotDone(s) = {} THEN s
    ELSE [s EXCEPT !.value = @ - 1,
                   !.woken = @ \cup {s.waiters[Min(NotDone(s))]}]

\* the tail of acquire(): while self._value > 0: if not _wake_up_next(): break
RECURSIVE WakeLoop(_)
WakeLoop(s) ==
    IF s.value > 0 /\ NotDone(s) # {} THEN WakeLoop(WakeUpNext(s)) ELSE s

SemRelease_NoWake(s) == [s EXCEPT !.value = @ + 1]

\* asyncio.Semaphore.release()
SemRelease(s) == WakeUpNext([s EXCEPT !.value = @ + 1])

AsyncWithExit_LeakOnError(s, exc) == IF exc THEN s ELSE SemRelease(s)

\* leaving "async with _rerank_sem": __aexit__ releases, exception or not
AsyncWithExit(s, exc) == SemRelease(s)

\* lifespan(): create the semaphore, warm the model (a failure is logged)
Lifespan ==
    /\ app = "starting"
    /\ app' = "running"
    /\ sem' = [value |-> gate_settings.rerank_concurrency, waiters |-> <<>>, woken |-> {}]
    /\ reranker_loaded' \in BOOLEAN
    /\ UNCHANGED <<gate_settings, rpc, ndocs, threads, abandoned, rstatus>>

TooMany_AtCeiling(n) == n >= gate_settings.max_docs_per_request

\* rerank(): len(request.documents) > max_docs
TooMany(n) == n > gate_settings.max_docs_per_request

\* rerank(): the document-count check fails, 422 before anything else
Rerank_Reject(r, n) ==
    /\ app = "running" /\ rpc[r] = "idle"
    /\ TooMany(n)
    /\ rpc' = [rpc EXCEPT ![r] = "rejected"]
    /\ ndocs' = [ndocs EXCEPT ![r] = n]
    /\ rstatus' = [rstatus EXCEPT ![r] =
           [status |-> 422,
            detail |-> <<"Too many documents", n, gate_settings.max_docs_per_request>>]]
    /\ UNCHANGED <<app, gate_settings, reranker_loaded, sem, threads, abandoned>>

\* rerank() -> _rerank_async(): acquire() takes a free permit at once
Rerank_Enter(r, n) ==
    /\ app = "running" /\ rpc[r] = "idle"
    /\ ~TooMany(n)
    /\ ~SemLocked(sem)
    /\ sem' = [sem EXCEPT !.value = @ - 1]
    /\ rpc' = [rpc EXCEPT ![r] = "acquired"]
    /\ ndocs' = [ndocs EXCEPT ![r] = n]
    /\ UNCHANGED <<app, gate_settings, reranker_loaded, threads, abandoned, rstatus>>

\* rerank() -> _rerank_async(): acquire() queues behind the permit holders
Rerank_Block(r, n) ==
    /\ app = "running" /\ rpc[r] = "idle"
    /\ ~TooMany(n)
    /\ SemLocked(sem)
    /\ sem' = [sem EXCEPT !.waiters = Append(@, r)]
    /\ rpc' = [rpc EXCEPT ![r] = "waiting"]
    /\ ndocs' = [ndocs EXCEPT ![r] = n]
    /\ UNCHANGED <<app, gate_settings, reranker_loaded, threads, abandoned, rstatus>>

\* a woken waiter resumes in acquire(): leaves the queue, passes spare permits on
Resume(r) ==
    /\ rpc[r] = "waiting" /\ r \in sem.woken
    /\ sem' = WakeLoop([sem EXCEPT !.waiters = Remove(@, r), !.woken = @ \ {r}])
    /\ rpc' = [rpc EXCEPT ![r] = "acquired"]
    /\ UNCHANGED <<app, gate_settings, reranker_loaded, ndocs, threads, abandoned, rstatus>>

\* _rerank_async(): get_reranker() succeeds, the scoring call starts on a worker thread
CallScorer(r) ==
    /\ rpc[r] = "acquired"
    /\ reranker_loaded' = TRUE
    /\ threads' = threads \cup {r}
    /\ rpc' = [rpc EXCEPT ![r] = "scoring"]
    /\ UNCHANGED <<app, gate_settings, sem, ndocs, abandoned, rstatus>>

ScoringError == [status |-> 500, detail |-> <<"Reranking error">>]

\* _rerank_async(): get_reranker() raises (model not loaded and the load fails);
\* the permit is released and rerank() answers 500
LoadFail(r) ==
    /\ rpc[r] = "acquired"
    /\ ~reranker_loaded
    /\ sem' = AsyncWithExit(sem, TRUE)
    /\ rpc' = [rpc EXCEPT ![r] = "failed"]
    /\ rstatus' = [rstatus EXCEPT ![r] = ScoringError]
    /\ UNCHANGED <<app, gate_settings, reranker_loaded, ndocs, threads, abandoned>>

\* the scoring call returns: permit released, rerank() builds the response
ScoreReturn(r) ==
    /\ rpc[r] = "scoring"
    /\ threads' = threads \ {r}
    /\ sem' = AsyncWithExit(sem, FALSE)
    /\ rpc' = [rpc EXCEPT ![r] = "done"]
    /\ rstatus' = [rstatus EXCEPT ![r] = [status |-> 200, detail |-> <<>>]]
    /\ UNCHANGED <<app, gate_settings, reranker_loaded, ndocs, abandoned>>

\* the scoring call raises: permit released, rerank() answers 500
ScoreRaise(r) ==
    /\ rpc[r] = "scoring"
    /\ threads' = threads \ {r}
    /\ sem' = AsyncWithExit(sem, TRUE)
    /\ rpc' = [rpc EXCEPT ![r] = "failed"]
    /\ rstatus' = [rstatus EXCEPT ![r] = ScoringError]
    /\ UNCHANGED <<app, gate_settings, reranker_loaded, ndocs, abandoned>>

\* the caller abandons a queued request: CancelledError inside acquire()
CancelQueued(r) ==
    /\ rpc[r] = "waiting"
    /\ sem' = WakeLoop([sem EXCEPT !.waiters = Remove(@, r),
                                   !.woken = @ \ {r},
                                   !.value = IF r \in sem.woken THEN @ + 1 ELSE @])
    /\ rpc' = [rpc EXCEPT ![r] = "cancelled"]
    /\ UNCHANGED <<app, gate_settings, reranker_loaded, ndocs, threads, abandoned, rstatus>>

\* the caller abandons a request that holds a permit and has not started scoring
CancelAcquired(r) ==
    /\ rpc[r] = "acquired"
    /\ sem' = AsyncWithExit(sem, TRUE)
    /\ rpc' = [rpc EXCEPT ![r] = "cancelled"]
    /\ UNCHANGED <<app, gate_settings, reranker_loaded, ndocs, threads, abandoned, rstatus>>

\* the caller abandons a request whose scoring call is running: run_sync(...,
\* cancellable=True) raises CancelledError in the task and leaves the worker
\* thread running; the permit is released on the way out
CancelScoring(r) ==
    /\ rpc[r] = "scoring"
    /\ abandoned < MaxAbandoned
    /\ threads' = threads \ {r}
    /\ abandoned' = abandoned + 1
    /\ sem' = AsyncWithExit(sem, TRUE)
    /\ rpc' = [rpc EXCEPT ![r] = "cancelled"]
    /\ UNCHANGED <<app, gate_settings, reranker_loaded, ndocs, rstatus>>

\* an abandoned worker thread finishes its Reranker.rerank call
AbandonedFinish ==
    /\ abandoned > 0
    /\ abandoned' = abandoned - 1
    /\ UNCHANGED <<app, gate_settings, reranker_loaded, sem, rpc, ndocs, threads, rstatus>>

Finished == {"done", "failed", "rejected", "cancelled"}

\* the answer has left; the slot serves the next request
Respond(r) ==
    /\ rpc[r] \in Finished
    /\ rpc' = [rpc EXCEPT ![r] = "idle"]
    /\ ndocs' = [ndocs EXCEPT ![r] = 0]
    /\ rstatus' = [rstatus EXCEPT ![r] = NoAnswer]
    /\ UNCHANGED <<app, gate_settings, reranker_loaded, sem, threads, abandoned>>

\* ------------------------------------------------------------------------
\* Reranker service: startup, /health and the model cache
\* ------------------------------------------------------------------------
Clients == 1..NumClients

get_reranker_CachesFailure(cache, constructs) ==
    IF cache = "loaded" THEN [cache |-> "loaded", raised |-> FALSE]
    ELSE IF cache = "failed" THEN [cache |-> "failed", raised |-> TRUE]
    ELSE IF constructs THEN [cache |-> "loaded", raised |-> FALSE]
    ELSE [cache |-> "failed", raised |-> TRUE]

\* get_reranker() under @lru_cache(maxsize=1): a kept Reranker is returned;
\* otherwise Reranker(model_path) is constructed, and kept only when the
\* construction returns (an exception is not cached)
get_reranker(cache, constructs) ==
    IF cache = "loaded" THEN [cache |-> "loaded", raised |-> FALSE]
    ELSE IF constructs THEN [cache |-> "loaded", raised |-> FALSE]
    ELSE [cache |-> cache, raised |-> TRUE]

\* lifespan(): get_reranker() and the warm-up inference; `constructs` and
\* `infers` tell whether the construction and the inference return; any
\* Exception is logged and the application starts
S_Lifespan(constructs, infers) ==
    /\ s_app = "starting"
    /\ \E got \in {get_reranker(s_cache, constructs)} :
          /\ s_cache' = got.cache
          /\ s_warm' = IF got.raised THEN "load_failed"
                       ELSE IF infers THEN "ok" ELSE "warmup_failed"
    /\ s_app' = "running"
    /\ UNCHANGED <<s_probes, s_health, s_rpc, s_rstatus>>

\* GET /health: return {"status": "ok"}
S_Health ==
    /\ s_app = "running"
    /\ s_probes < MaxProbes
    /\ s_probes' = s_probes + 1
    /\ s_health' = "ok"
    /\ UNCHANGED <<s_app, s_cache, s_warm, s_rpc, s_rstatus>>

\* POST /rerank arrives and reaches _rerank_async
S_Rerank(c) ==
    /\ s_app = "running"
    /\ s_rpc[c] = "idle"
    /\ s_rpc' = [s_rpc EXCEPT ![c] = "acquired"]
    /\ UNCHANGED <<s_app, s_cache, s_warm, s_probes, s_health, s_rstatus>>

\* _rerank_async(): reranker = get_reranker() returns, the scoring call starts
S_GetReranker(c, constructs) ==
    /\ s_rpc[c] = "acquired"
    /\ ~get_reranker(s_cache, constructs).raised
    /\ s_cache' = get_reranker(s_cache, constructs).cache
    /\ s_rpc' = [s_rpc EXCEPT ![c] = "scoring"]
    /\ UNCHANGED <<s_app, s_warm, s_probes, s_health, s_rstatus>>

\* _rerank_async(): get_reranker() raises, rerank() answers 500
S_GetRerankerFail(c, constructs) ==
    /\ s_rpc[c] = "acquired"
    /\ get_reranker(s_cache, constructs).raised
    /\ s_cache' = get_reranker(s_cache, constructs).cache
    /\ s_rpc' = [s_rpc EXCEPT ![c] = "answered"]
    /\ s_rstatus' = [s_rstatus EXCEPT ![c] = 500]
    /\ UNCHANGED <<s_app, s_warm, s_probes, s_health>>

\* the scoring call returns (200) or raises (500)
S_Scored(c, status) ==
    /\ s_rpc[c] = "scoring"
    /\ s_rpc' = [s_rpc EXCEPT ![c] = "answered"]
    /\ s_rstatus' = [s_rstatus EXCEPT ![c] = status]
    /\ UNCHANGED <<s_app, s_cache, s_warm, s_probes, s_health>>

\* ------------------------------------------------------------------------
\* Retrieval service: the embedding model handle
\* ------------------------------------------------------------------------
Queries == 1..NumQueries

\* startup_event(): try: get_embedder(); a failure is logged and startup goes
\* on.  Nothing else runs yet, so the call is one step.
E_Startup(constructs) ==
    /\ e_app = "starting"
    /\ e_app' = "running"
    /\ e_started' = e_started + 1
    /\ e_built' = IF constructs THEN e_built + 1 ELSE e_built
    /\ e_embedder' = IF constructs THEN e_built + 1 ELSE e_embedder
    /\ UNCHANGED <<e_concurrency, e_permits, e_pc, e_handle>>

\* embed_async_one(): async with embed_semaphore, then run_sync hands
\* _embed_one to a worker thread
E_Acquire(q) ==
    /\ e_app = "running"
    /\ e_pc[q] = "idle"
    /\ e_permits < e_concurrency
    /\ e_permits' = e_permits + 1
    /\ e_pc' = [e_pc EXCEPT ![q] = "get_embedder"]
    /\ UNCHANGED <<e_app, e_concurrency, e_embedder, e_started, e_built, e_handle>>

\* get_embedder() on the worker thread: if _embedder is None, Embedder()
\* begins; otherwise return _embedder
E_Check(q) ==
    /\ e_pc[q] = "get_embedder"
    /\ IF e_embedder = 0
       THEN /\ e_pc' = [e_pc EXCEPT ![q] = "constructing"]
            /\ e_started' = e_started + 1
            /\ UNCHANGED e_handle
       ELSE /\ e_pc' = [e_pc EXCEPT ![q] = "embed"]
            /\ e_handle' = [e_handle EXCEPT ![q] = e_embedder]
            /\ UNCHANGED e_started
    /\ UNCHANGED <<e_app, e_concurrency, e_embedder, e_built, e_permits>>

\* Embedder() returns: _embedder = Embedder(); return _embedder
E_Construct(q) ==
    /\ e_pc[q] = "constructing"
    /\ e_built' = e_built + 1
    /\ e_embedder' = e_built + 1
    /\ e_handle' = [e_handle EXCEPT ![q] = e_built + 1]
    /\ e_pc' = [e_pc EXCEPT ![q] = "embed"]
    /\ UNCHANGED <<e_app, e_concurrency, e_started, e_permits>>

\* Embedder() raises: the exception leaves _embed_one and the async with
E_ConstructFail(q) ==
    /\ e_pc[q] = "constructing"
    /\ e_pc' = [e_pc EXCEPT ![q] = "failed"]
    /\ e_permits' = e_permits - 1
    /\ UNCHANGED <<e_app, e_concurrency, e_embedder, e_started, e_built, e_handle>>

\* embedder.embed([query]) returns, the async with releases the permit
E_Embed(q) ==
    /\ e_pc[q] = "embed"
    /\ e_pc' = [e_pc EXCEPT ![q] = "embedded"]
    /\ e_permits' = e_permits - 1
    /\ UNCHANGED <<e_app, e_concurrency, e_embedder, e_started, e_built, e_handle>>

\* ------------------------------------------------------------------------
\* Numbers and sorting as the Python runtime has them
\* ------------------------------------------------------------------------
\* a score is a fraction <<numerator, denominator>> with a positive denominator
RatLt(a, b) == a[1] * b[2] < b[1] * a[2]
RatEq(a, b) == a[1] * b[2] = b[1] * a[2]
RatAdd(a, b) == <<a[1] * b[2] + b[1] * a[2], a[2] * b[2]>>

Reverse(xs) == [i \in 1..Len(xs) |-> xs[Len(xs) + 1 - i]]

\* list.sort(key=...): a stable ascending sort of records by their key; an
\* element lands behind the smaller keys and behind the equal keys that came first
StableSort(xs) ==
    LET place(i) == 1 + Cardinality({j \in 1..Len(xs) : RatLt(xs[j].key, xs[i].key)})
                      + Cardinality({j \in 1..(i - 1) : RatEq(xs[j].key, xs[i].key)})
    IN [p \in 1..Len(xs) |-> xs[CHOOSE i \in 1..Len(xs) : place(i) = p]]

\* sorted(xs, key=..., reverse=...): with reverse=True the list is reversed,
\* sorted ascending and reversed again, so equal keys keep their input order
PySorted(xs, reverse) ==
    IF reverse THEN Reverse(StableSort(Reverse(xs))) ELSE StableSort(xs)

Take(xs, n) == SubSeq(xs, 1, IF n < Len(xs) THEN n ELSE Len(xs))

\* ------------------------------------------------------------------------
\* Reranker service: the /rerank handler of one request
\* ------------------------------------------------------------------------
NoneTopK == 0   \* top_k is None (a given top_k is >= 1)

SortByScoreDesc_ReverseAfter(pairs) == Reverse(StableSort(pairs))

\* rerank(): sorted(enumerate(scores), key=lambda x: x[1], reverse=True)
SortByScoreDesc(pairs) == PySorted(pairs, TRUE)

\* rerank(): from the scores to the RerankResponse
BuildResponse(req, scores) ==
    LET indexed == SortByScoreDesc(
                       [i \in 1..req.n |->
                           [orig_idx |-> i, score |-> scores[i], key |-> <<scores[i], 1>>]])
        top0 == IF req.top_k # NoneTopK THEN req.top_k ELSE req.n
        top_k == IF top0 < req.n THEN top0 ELSE req.n
        cut == Take(indexed, top_k)
        results == [i \in 1..Len(cut) |->
                       [rank |-> i, doc |-> cut[i].orig_idx, reranker_score |-> cut[i].score]]
    IN [status |-> 200,
        results |-> results,
        reranked_count |-> req.n,
        returned_count |-> Len(results)]

\* rerank(): more documents than max_docs_per_request
H_Reject ==
    /\ h_pc = "start"
    /\ h_req.n > gate_settings.max_docs_per_request
    /\ h_pc' = "rejected"
    /\ h_resp' = [status |-> 422,
                  detail |-> <<"Too many documents", h_req.n,
                               gate_settings.max_docs_per_request>>]
    /\ UNCHANGED <<h_req, h_scores>>

\* rerank(): the check passes, the handler awaits _rerank_async
H_Score ==
    /\ h_pc = "start"
    /\ h_req.n <= gate_settings.max_docs_per_request
    /\ h_pc' = "scoring"
    /\ UNCHANGED <<h_req, h_scores, h_resp>>

\* _rerank_async returns one score per document
H_Scored(scores) ==
    /\ h_pc = "scoring"
    /\ h_pc' = "done"
    /\ h_scores' = scores
    /\ h_resp' = BuildResponse(h_req, scores)
    /\ UNCHANGED h_req

\* _rerank_async raises
H_Failed ==
    /\ h_pc = "scoring"
    /\ h_pc' = "failed"
    /\ h_resp' = ScoringError
    /\ UNCHANGED <<h_req, h_scores>>

\* ------------------------------------------------------------------------
\* Retrieval service: reciprocal rank fusion
\* ------------------------------------------------------------------------
RrfKDefault == 60   \* the default of the rrf_k parameter
HeapFactor == 10    \* heapq.nlargest is used when len(fused) > k * 10

\* 1.0 / (rrf_k + rank)
RrfContribution(rrf_k, rank) == <<1, rrf_k + rank>>

\* the sum of 1.0 / (rrf_k + rank) over the given ranks, added to start
RECURSIVE AddContributions(_, _, _)
AddContributions(start, ranks, rrf_k) ==
    IF ranks = {} THEN start
    ELSE AddContributions(RatAdd(start, RrfContribution(rrf_k, Min(ranks))),
                          ranks \ {Min(ranks)}, rrf_k)

\* the elements of a set of positions in ascending order
Ordered(P) == [p \in 1..Cardinality(P) |->
                  CHOOSE r \in P : Cardinality({q \in P : q < r}) = p - 1]

\* one loop of reciprocal_rank_fusion: fused is the dict in insertion order; an
\* entry remembers the object it holds by the list and position it came from.
\* A chunk id already in the dict adds its contributions to the entry; a new
\* one is appended where it is first seen
MergeRanked(fused, list, src, rrf_k) ==
    LET ranksOf(cid) == {r \in 1..Len(list) : list[r].chunk_id = cid}
        known == {fused[i].chunk_id : i \in 1..Len(fused)}
        firstSeen == Ordered({r \in 1..Len(list) :
                                /\ list[r].chunk_id \notin known
                                /\ r = Min(ranksOf(list[r].chunk_id))})
    IN [i \in 1..Len(fused) |->
           [fused[i] EXCEPT !.score =
               AddContributions(@, ranksOf(fused[i].chunk_id), rrf_k)]]
       \o [n \in 1..Len(firstSeen) |->
              [chunk_id |-> list[firstSeen[n]].chunk_id,
               src |-> src, pos |-> firstSeen[n],
               score |-> AddContributions(RrfContribution(rrf_k, firstSeen[n]),
                                          ranksOf(list[firstSeen[n]].chunk_id)
                                              \ {firstSeen[n]}, rrf_k)]]

WithKey(entries) == [i \in 1..Len(entries) |-> [e |-> entries[i], key |-> entries[i].score]]
WithoutKey(keyed) == [i \in 1..Len(keyed) |-> keyed[i].e]

\* the tuples (key, order, elem) of heapq.nlargest: order falls as the input
\* advances, and tuples compare by key, then by order
TupleLt_LaterFirst(a, b) ==
    RatLt(a.key, b.key) \/ (RatEq(a.key, b.key) /\ a.order > b.order)

TupleLt(a, b) == RatLt(a.key, b.key) \/ (RatEq(a.key, b.key) /\ a.order < b.order)

\* result.sort(reverse=True) of distinct tuples
TuplesDescending(tuples) ==
    [p \in 1..Cardinality(tuples) |->
        CHOOSE t \in tuples : Cardinality({u \in tuples : TupleLt(t, u)}) = p - 1]

\* max(it, key=key): the first of the largest
FirstMax(xs) ==
    xs[Min({i \in 1..Len(xs) : \A j \in 1..Len(xs) : ~RatLt(xs[i].key, xs[j].key)})]

\* heapq.nlargest(n, xs, key=...) on records that carry their key. In the
\* general case the heap ends up holding the n greatest tuples: "if top < k"
\* lets a tuple in only over a strictly smaller key, and heapreplace drops the
\* smallest tuple
NLargest(n, xs) ==
    IF n = 1 THEN (IF Len(xs) = 0 THEN <<>> ELSE <<FirstMax(xs)>>)
    ELSE IF n >= Len(xs) THEN Take(PySorted(xs, TRUE), n)
    ELSE IF n <= 0 THEN <<>>
    ELSE LET tuples == {[key |-> xs[j].key, order |-> 0 - (j - 1), elem |-> xs[j]]
                           : j \in 1..Len(xs)}
             sorted == TuplesDescending(tuples)
         IN [p \in 1..n |-> sorted[p].elem]

\* reciprocal_rank_fusion: the k best entries of fused
TopEntries(fused, k) ==
    IF Len(fused) > k * HeapFactor
    THEN WithoutKey(NLargest(k, WithKey(fused)))
    ELSE Take(WithoutKey(PySorted(WithKey(fused), TRUE)), k)

\* item.score = entry["score"] writes into the object the candidate list holds
Rescored(list, src, top) ==
    [i \in 1..Len(list) |->
        LET hit == {j \in 1..Len(top) : top[j].src = src /\ top[j].pos = i}
        IN IF hit = {} THEN list[i]
           ELSE [list[i] EXCEPT !.score = top[Min(hit)].score]]

\* reciprocal_rank_fusion(lexical, semantic, k, rrf_k): what it returns, and the
\* candidate lists as the call leaves them
reciprocal_rank_fusion(lexical, semantic, k, rrf_k) ==
    IF Len(lexical) = 0 /\ Len(semantic) = 0
    THEN [results |-> <<>>, lexical |-> lexical, semantic |-> semantic]
    ELSE IF Len(lexical) = 0
    THEN [results |-> Take(semantic, k), lexical |-> lexical, semantic |-> semantic]
    ELSE IF Len(semantic) = 0
    THEN [results |-> Take(lexical, k), lexical |-> lexical, semantic |-> semantic]
    ELSE LET fused == MergeRanked(MergeRanked(<<>>, lexical, "lexical", rrf_k),
                                  semantic, "semantic", rrf_k)
             top == TopEntries(fused, k)
         IN [results |-> [i \in 1..Len(top) |->
                             [chunk_id |-> top[i].chunk_id, score |-> top[i].score]],
             lexical |-> Rescored(lexical, "lexical", top),
             semantic |-> Rescored(semantic, "semantic", top)]

\* a call of reciprocal_rank_fusion with the default rrf_k
F_Call ==
    /\ f_calls < MaxCalls
    /\ LET out == reciprocal_rank_fusion(f_lexical, f_semantic, f_k, RrfKDefault)
       IN /\ f_result' = out.results
          /\ f_lexical' = out.lexical
          /\ f_semantic' = out.semantic
          /\ f_first' = IF f_calls = 0 THEN out.results ELSE f_first
    /\ f_calls' = f_calls + 1
    /\ UNCHANGED f_k

\* ------------------------------------------------------------------------
\* Retrieval service: Settings
\* ------------------------------------------------------------------------
\* the declared fields of Settings the model reads, with their environment alias
SettingsAlias ==
    [database_url |-> "DATABASE_URL", chunk_size |-> "CHUNK_SIZE",
     chunk_overlap |-> "CHUNK_OVERLAP", embed_concurrency |-> "EMBED_CONCURRENCY"]

SettingsDefaults == [chunk_size |-> 450, chunk_overlap |-> 80, embed_concurrency |-> 2]

\* Settings.from_env(): model_validate of the environment; a variable that is
\* the alias of no declared field is ignored
from_env(env) ==
    [f \in DOMAIN SettingsAlias |->
        IF SettingsAlias[f] \in DOMAIN env THEN env[SettingsAlias[f]] ELSE SettingsDefaults[f]]

\* attribute lookup on a pydantic model: only declared fields are attributes
HasAttr(obj, name) == name \in DOMAIN obj

\* ------------------------------------------------------------------------
\* Retrieval service: the /query handler of one request
\* ------------------------------------------------------------------------
NoResults == [status |-> 0, results |-> <<>>]

QueryError(code) == [status |-> code, results |-> <<>>]

QueryResponse(results) == [status |-> 200, results |-> results]

\* if not payload.query.strip(): raise HTTPException(400)
Q_Reject ==
    /\ q_pc = "received"
    /\ q_req.blank
    /\ q_pc' = "done"
    /\ q_resp' = QueryError(400)
    /\ UNCHANGED <<q_env, q_settings, q_req, q_lex, q_emb, q_sem, q_lexical, q_semantic>>

\* mode == "lexical": await run_lexical
Q_LexicalMode ==
    /\ q_pc = "received"
    /\ ~q_req.blank
    /\ q_req.mode = "lexical"
    /\ q_lex' = "running"
    /\ q_pc' = "lexical"
    /\ UNCHANGED <<q_env, q_settings, q_req, q_emb, q_sem, q_lexical, q_semantic, q_resp>>

\* mode == "semantic": await embed_async_one
Q_SemanticMode ==
    /\ q_pc = "received"
    /\ ~q_req.blank
    /\ q_req.mode = "semantic"
    /\ q_emb' = "running"
    /\ q_pc' = "embedding"
    /\ UNCHANGED <<q_env, q_settings, q_req, q_lex, q_sem, q_lexical, q_semantic, q_resp>>

\* hybrid: asyncio.gather(lexical_task, vector_task) starts both
Q_HybridMode ==
    /\ q_pc = "received"
    /\ ~q_req.blank
    /\ q_req.mode = "hybrid"
    /\ q_lex' = "running"
    /\ q_emb' = "running"
    /\ q_pc' = "gather"
    /\ UNCHANGED <<q_env, q_settings, q_req, q_sem, q_lexical, q_semantic, q_resp>>

\* run_lexical returns rows (up to LIMIT k of them, best score first)
Q_LexicalDone(rows) ==
    /\ q_lex = "running"
    /\ Len(rows) <= q_req.k
    /\ q_lex' = "done"
    /\ q_lexical' = rows
    /\ UNCHANGED <<q_env, q_settings, q_req, q_pc, q_emb, q_sem, q_semantic, q_resp>>

Q_LexicalFail ==
    /\ q_lex = "running"
    /\ q_lex' = "failed"
    /\ UNCHANGED <<q_env, q_settings, q_req, q_pc, q_emb, q_sem, q_lexical, q_semantic, q_resp>>

\* embed_async_one returns the query vector
Q_EmbedDone ==
    /\ q_emb = "running"
    /\ q_emb' = "done"
    /\ UNCHANGED <<q_env, q_settings, q_req, q_pc, q_lex, q_sem, q_lexical, q_semantic, q_resp>>

Q_EmbedFail ==
    /\ q_emb = "running"
    /\ q_emb' = "failed"
    /\ UNCHANGED <<q_env, q_settings, q_req, q_pc, q_lex, q_sem, q_lexical, q_semantic, q_resp>>

\* results = await run_lexical(...); return QueryResponse
Q_LexicalAnswer ==
    /\ q_pc = "lexical"
    /\ q_lex = "done"
    /\ q_pc' = "done"
    /\ q_resp' = QueryResponse(q_lexical)
    /\ UNCHANGED <<q_env, q_settings, q_req, q_lex, q_emb, q_sem, q_lexical, q_semantic>>

\* semantic mode: the vector is there, run_semantic_with_vector starts
Q_Embedded ==
    /\ q_pc = "embedding"
    /\ q_emb = "done"
    /\ q_sem' = "running"
    /\ q_pc' = "semantic"
    /\ UNCHANGED <<q_env, q_settings, q_req, q_lex, q_emb, q_lexical, q_semantic, q_resp>>

\* what `await asyncio.gather(lexical_task, vector_task)` waits for
GatherReady(lex, emb) == lex = "done" /\ emb = "done"

\* hybrid mode: gather returns lexical and vector, run_semantic_with_vector starts
Q_Gathered ==
    /\ q_pc = "gather"
    /\ GatherReady(q_lex, q_emb)
    /\ q_sem' = "running"
    /\ q_pc' = "semantic"
    /\ UNCHANGED <<q_env, q_settings, q_req, q_lex, q_emb, q_lexical, q_semantic, q_resp>>

\* run_semantic_with_vector returns rows (up to LIMIT k, smallest distance first)
Q_SemanticDone(rows) ==
    /\ q_sem = "running"
    /\ Len(rows) <= q_req.k
    /\ q_sem' = "done"
    /\ q_semantic' = rows
    /\ UNCHANGED <<q_env, q_settings, q_req, q_pc, q_lex, q_emb, q_lexical, q_resp>>

Q_SemanticFail ==
    /\ q_sem = "running"
    /\ q_sem' = "failed"
    /\ UNCHANGED <<q_env, q_settings, q_req, q_pc, q_lex, q_emb, q_lexical, q_semantic, q_resp>>

\* semantic mode: return QueryResponse(results = the semantic rows)
Q_SemanticAnswer ==
    /\ q_pc = "semantic"
    /\ q_req.mode = "semantic"
    /\ q_sem = "done"
    /\ q_pc' = "done"
    /\ q_resp' = QueryResponse(q_semantic)
    /\ UNCHANGED <<q_env, q_settings, q_req, q_lex, q_emb, q_sem, q_lexical, q_semantic>>

\* hybrid mode: reciprocal_rank_fusion(lexical, semantic, payload.k,
\* rrf_k=settings.rrf_k); evaluating settings.rrf_k on a Settings object without
\* that attribute raises AttributeError, which the framework answers with 500
Q_Fuse ==
    /\ q_pc = "semantic"
    /\ q_req.mode = "hybrid"
    /\ q_sem = "done"
    /\ q_pc' = "done"
    /\ IF HasAttr(q_settings, "rrf_k")
       THEN LET out == reciprocal_rank_fusion(q_lexical, q_semantic, q_req.k, q_settings.rrf_k)
            IN /\ q_resp' = QueryResponse(out.results)
               /\ q_lexical' = out.lexical
               /\ q_semantic' = out.semantic
       ELSE /\ q_resp' = QueryError(500)
            /\ UNCHANGED <<q_lexical, q_semantic>>
    /\ UNCHANGED <<q_env, q_settings, q_req, q_lex, q_emb, q_sem>>

\* the awaited call raised: the exception leaves the handler, answer 500
Q_Raise ==
    /\ \/ q_pc = "lexical" /\ q_lex = "failed"
       \/ q_pc = "embedding" /\ q_emb = "failed"
       \/ q_pc = "gather" /\ (q_lex = "failed" \/ q_emb = "failed")
       \/ q_pc = "semantic" /\ q_sem = "failed"
    /\ q_pc' = "done"
    /\ q_resp' = QueryError(500)
    /\ UNCHANGED <<q_env, q_settings, q_req, q_lex, q_emb, q_sem, q_lexical, q_semantic>>

\* ------------------------------------------------------------------------
\* Retrieval service: the chunker
\* ------------------------------------------------------------------------
\* A text is a sequence of tokens: words [w |-> i, end |-> e], e telling whether
\* the word ends with one of . ! ?, and line ends (w = 0 for "\n", w = -1 for
\* "\r\n").  Words next to each other are separated by blanks.  The content of
\* a chunk is its sequence of words.
Word(i, e) == [w |-> i, end |-> e]
NL == [w |-> 0, end |-> FALSE]
CRLF == [w |-> -1, end |-> FALSE]
IsNL(tok) == tok.w = 0
IsWord(tok) == tok.w > 0

\* the element of a one-element set
Only(S) == CHOOSE x \in S : TRUE

Nth(S, n) == CHOOSE i \in S : Cardinality({j \in S : j < i}) = n - 1

\* the elements of seq at the positions in S, in order
Pick(seq, S) == [n \in 1..Cardinality(S) |-> seq[Nth(S, n)]]

RECURSIVE Join(_)
Join(parts) == IF parts = <<>> THEN <<>> ELSE Head(parts) \o Join(Tail(parts))

clean_text(text) ==
    LET lf == [i \in 1..Len(text) |-> IF text[i] = CRLF THEN NL ELSE text[i]]
        collapsed == Pick(lf, {i \in 1..Len(lf) :
                                  ~(i >= 3 /\ IsNL(lf[i]) /\ IsNL(lf[i - 1]) /\ IsNL(lf[i - 2]))})
        words == {i \in 1..Len(collapsed) : IsWord(collapsed[i])}
    IN Pick(collapsed, {i \in 1..Len(collapsed) :
                           \E a, b \in words : a <= i /\ i <= b})

\* text.split("\n\n"), each part stripped, empty parts dropped: two words are
\* in the same paragraph when at most one line end lies between them
split_paragraphs(text) ==
    LET words == {i \in 1..Len(text) : IsWord(text[i])}
        starts == {i \in words : ~\E j \in words : j < i /\ i - j <= 2}
    IN [n \in 1..Cardinality(starts) |->
           Pick(text, {i \in words :
                          /\ i >= Nth(starts, n)
                          /\ n < Cardinality(starts) => i < Nth(starts, n + 1)})]

\* re.split(r"(?<=[.!?])\s+", paragraph): a new sentence after every word that
\* ends with a terminator and is followed by whitespace
split_sentences(paragraph) ==
    LET words == SelectSeq(paragraph, IsWord)
        starts == {i \in 1..Len(words) : i = 1 \/ words[i - 1].end}
    IN [n \in 1..Cardinality(starts) |->
           SubSeq(words, Nth(starts, n),
                  IF n < Cardinality(starts) THEN Nth(starts, n + 1) - 1 ELSE Len(words))]

\* len(sentence.split()) summed over the last m of sentences
SuffixTokens(sentences, m) ==
    Len(Join(SubSeq(sentences, Len(sentences) - m + 1, Len(sentences))))

\* add_chunk(): the state is [chunks, current, current_tokens]
add_chunk(st, chunk_overlap) ==
    IF st.current = <<>>
    THEN st
    ELSE LET chunk == Join(st.current)
             emitted == Append(st.chunks, [content |-> chunk, token_count |-> st.current_tokens])
         IN IF chunk_overlap > 0
            THEN LET sentences == split_sentences(chunk)
                     fit == {m \in 0..Len(sentences) :
                                \A j \in 1..m : SuffixTokens(sentences, j) <= chunk_overlap}
                     m == CHOOSE x \in fit : \A y \in fit : y <= x
                 IN [chunks |-> emitted,
                     current |-> SubSeq(sentences, Len(sentences) - m + 1, Len(sentences)),
                     current_tokens |-> SuffixTokens(sentences, m)]
            ELSE [chunks |-> emitted, current |-> <<>>, current_tokens |-> 0]

AddSentence_DropOnClose(st, sentence, chunk_size, chunk_overlap) ==
    IF st.current_tokens + Len(sentence) > chunk_size /\ st.current # <<>>
    THEN add_chunk(st, chunk_overlap)
    ELSE [chunks |-> st.chunks,
          current |-> Append(st.current, sentence),
          current_tokens |-> st.current_tokens + Len(sentence)]

\* the loop body for one sentence: close the chunk when the sentence would
\* push it over chunk_size, then append the sentence
AddSentence(st, sentence, chunk_size, chunk_overlap) ==
    LET tokens == Len(sentence)
        closed == IF st.current_tokens + tokens > chunk_size /\ st.current # <<>>
                  THEN add_chunk(st, chunk_overlap)
                  ELSE st
    IN [chunks |-> closed.chunks,
        current |-> Append(closed.current, sentence),
        current_tokens |-> closed.current_tokens + tokens]

\* for sentence in sentences: ...
RECURSIVE AddSentences(_, _, _, _)
AddSentences(st, sentences, chunk_size, chunk_overlap) ==
    IF sentences = <<>>
    THEN st
    ELSE Only({AddSentences(grown, Tail(sentences), chunk_size, chunk_overlap) :
                  grown \in {AddSentence(st, Head(sentences), chunk_size, chunk_overlap)}})

\* the loop body for one paragraph: its sentences, then the commit of a large block
AddParagraph(st, para, chunk_size, chunk_overlap) ==
    Only({IF fed.current_tokens >= chunk_size THEN add_chunk(fed, chunk_overlap) ELSE fed :
             fed \in {AddSentences(st, split_sentences(para), chunk_size, chunk_overlap)}})

\* for para in paragraphs: ...
RECURSIVE AddParagraphs(_, _, _, _)
AddParagraphs(st, paragraphs, chunk_size, chunk_overlap) ==
    IF paragraphs = <<>>
    THEN st
    ELSE Only({AddParagraphs(committed, Tail(paragraphs), chunk_size, chunk_overlap) :
                  committed \in {AddParagraph(st, Head(paragraphs), chunk_size, chunk_overlap)}})

chunk_text(text, chunk_size, chunk_overlap) ==
    LET start == [chunks |-> <<>>, current |-> <<>>, current_tokens |-> 0]
    IN Only({(IF looped.current # <<>> THEN add_chunk(looped, chunk_overlap) ELSE looped).chunks :
                looped \in {AddParagraphs(start, split_paragraphs(clean_text(text)),
                                          chunk_size, chunk_overlap)}})

\* a call of chunk_text
C_Chunk ==
    /\ c_pc = "input"
    /\ c_chunks' = chunk_text(c_text, c_size, c_overlap)
    /\ c_pc' = "chunked"
    /\ UNCHANGED <<c_text, c_size, c_overlap>>

\* ------------------------------------------------------------------------
\* Retrieval service: ingestion
\* ------------------------------------------------------------------------
\* hashlib.sha256(text).hexdigest(): equal exactly for equal texts
Checksum(text) == <<"sha256", text>>

upsert_document_ReplaceRow(rows, seq, source_id, title, url, checksum) ==
    [documents |-> Append(SelectSeq(rows, LAMBDA row : row.source_id # source_id),
                          [id |-> seq, source_id |-> source_id, title |-> title, url |-> url,
                           checksum |-> checksum]),
     doc_seq |-> seq + 1,
     id |-> seq]

\* INSERT INTO documents ... ON CONFLICT (source_id) DO UPDATE SET checksum =
\* EXCLUDED.checksum RETURNING id; the id default is taken from the sequence
\* before the conflict is seen
upsert_document(rows, seq, source_id, title, url, checksum) ==
    LET same == {i \in 1..Len(rows) : rows[i].source_id = source_id}
    IN IF same = {}
       THEN [documents |-> Append(rows, [id |-> seq, source_id |-> source_id, title |-> title,
                                         url |-> url, checksum |-> checksum]),
             doc_seq |-> seq + 1,
             id |-> seq]
       ELSE [documents |-> [i \in 1..Len(rows) |->
                               IF i \in same THEN [rows[i] EXCEPT !.checksum = checksum]
                               ELSE rows[i]],
             doc_seq |-> seq + 1,
             id |-> rows[CHOOSE i \in same : TRUE].id]

NoCall == [source_id |-> 0, title |-> "", url |-> "", checksum |-> <<>>, id |-> 0, existed |-> FALSE]

\* a call of upsert_document(conn, source_id, title, url, checksum), committed
U_Upsert(source_id, title, url, checksum) ==
    /\ u_calls < MaxUpserts
    /\ \E out \in {upsert_document(u_documents, u_seq, source_id, title, url, checksum)} :
          /\ u_documents' = out.documents
          /\ u_seq' = out.doc_seq
          /\ u_call' = [source_id |-> source_id, title |-> title, url |-> url,
                        checksum |-> checksum, id |-> out.id,
                        existed |-> \E i \in 1..Len(u_documents) :
                                        u_documents[i].source_id = source_id]
          /\ u_first' = IF u_first[source_id] = 0
                        THEN [u_first EXCEPT ![source_id] = out.id]
                        ELSE u_first
    /\ u_calls' = u_calls + 1

\* the unique constraints of table chunks: its primary key id and nothing else
ChunkConflict(rows, row) == \E i \in 1..Len(rows) : rows[i].id = row.id

\* INSERT INTO chunks ... ON CONFLICT DO NOTHING for every chunk, chunk_index
\* counting from 0
insert_chunks(rows, seq, document_id, new) ==
    LET records == [n \in 1..Len(new) |->
                       [id |-> seq + n - 1, document_id |-> document_id, chunk_index |-> n - 1,
                        content |-> new[n].content, token_count |-> new[n].token_count]]
    IN [chunks |-> rows \o SelectSeq(records, LAMBDA row : ~ChunkConflict(rows, row)),
        chunk_seq |-> seq + Len(new)]

\* ingest() starts: the settings are read and the source records are loaded
I_Start(env, results) ==
    /\ i_pc = "idle"
    /\ i_runs < MaxRuns
    /\ i_runs' = i_runs + 1
    /\ i_settings' = from_env(env)
    /\ i_results' = results
    /\ i_parsed' = results
    /\ i_failed' = FALSE
    /\ i_pc' = "processing"
    /\ UNCHANGED <<documents, chunks, doc_seq, chunk_seq, i_index, i_latest>>

\* one source raises in download_and_parse_dataset or load_local_dataset while
\* the others give `parsed`: future.result() re-raises, nothing catches it, and
\* ingest() ends before the loop
I_LoadFail(parsed) ==
    /\ i_pc = "idle"
    /\ i_runs < MaxRuns
    /\ i_runs' = i_runs + 1
    /\ i_parsed' = parsed
    /\ i_failed' = TRUE
    /\ UNCHANGED <<documents, chunks, doc_seq, chunk_seq, i_pc, i_settings, i_results, i_index,
                   i_latest>>

\* one pass of the loop: upsert_document, chunk_text, embed, insert_chunks
I_ProcessItem ==
    /\ i_pc = "processing"
    /\ i_results # <<>>
    /\ \E item \in {Head(i_results)} :
       \E doc \in {upsert_document(documents, doc_seq, item.source_id, item.title, item.url,
                                    Checksum(item.text))} :
       \E new \in {chunk_text(item.text, i_settings.chunk_size, i_settings.chunk_overlap)} :
       \E put \in {insert_chunks(chunks, chunk_seq, doc.id, new)} :
          /\ documents' = doc.documents
          /\ doc_seq' = doc.doc_seq
          /\ chunks' = put.chunks
          /\ chunk_seq' = put.chunk_seq
          /\ i_latest' = [i_latest EXCEPT ![item.source_id] = new]
    /\ i_results' = Tail(i_results)
    /\ UNCHANGED <<i_pc, i_settings, i_runs, i_index, i_parsed, i_failed>>

\* after the loop: create_vector_index_sync(), the run is complete
I_CreateIndex ==
    /\ i_pc = "processing"
    /\ i_results = <<>>
    /\ i_index' = TRUE
    /\ i_pc' = "idle"
    /\ UNCHANGED <<documents, chunks, doc_seq, chunk_seq, i_settings, i_results, i_runs,
                   i_latest, i_parsed, i_failed>>

\* ------------------------------------------------------------------------
\* Specifications
\* ------------------------------------------------------------------------
\* the reranker service before lifespan() runs, configured with one of `permits`
GateStart(permits) ==
    /\ app = "starting"
    /\ gate_settings \in [rerank_concurrency : permits,
                          max_docs_per_request : {MaxDocsCeiling}]
    /\ reranker_loaded = FALSE
    /\ sem = [value |-> 0, waiters |-> <<>>, woken |-> {}]
    /\ rpc = [r \in Requests |-> "idle"]
    /\ ndocs = [r \in Requests |-> 0]
    /\ threads = {}
    /\ abandoned = 0
    /\ rstatus = [r \in Requests |-> NoAnswer]

\* document counts of arriving requests: at the ceiling and one over it
DocCounts == {gate_settings.max_docs_per_request, gate_settings.max_docs_per_request + 1}

GateInit == GateStart(1..MaxPermits)

HandlerInit ==
    /\ h_pc = "start"
    /\ h_req \in [n : 1..(MaxDocsCeiling + 1), top_k : {NoneTopK} \cup (1..MaxTopK)]
    /\ h_scores = <<>>
    /\ h_resp = NoAnswer


\* candidate lists as the searchers return them: run_lexical orders by score
\* descending, run_semantic_with_vector by distance ascending
LexicalRows(ids) ==
    [i \in 1..Len(ids) |-> [chunk_id |-> ids[i], score |-> <<Len(ids) + 1 - i, 10>>]]
SemanticRows(ids) ==
    [i \in 1..Len(ids) |-> [chunk_id |-> ids[i], score |-> <<i, 10>>]]

\* every list of chunk ids over S without repeats
RECURSIVE Arrangements(_)
Arrangements(S) ==
    {<<>>} \cup UNION {{<<x>> \o rest : rest \in Arrangements(S \ {x})} : x \in S}

Ascending(first, n) == [i \in 1..n |-> first + i - 1]

ShortIds == Arrangements(1..MaxShort)
LongLexicalIds == {Ascending(1, MaxLong)}
LongSemanticIds ==
    LET fresh == Ascending(MaxLong + 1, MaxLong)
    IN {Ascending(1, MaxLong), Ascending(2, MaxLong)}
       \cup UNION {{head \o fresh, head \o Reverse(fresh)} : head \in Arrangements(1..2)}

FusionInit ==
    /\ \E pair \in (ShortIds \X ShortIds) \cup (LongLexicalIds \X LongSemanticIds) :
          /\ f_lexical = LexicalRows(pair[1])
          /\ f_semantic = SemanticRows(pair[2])
    /\ f_k \in 0..MaxK
    /\ f_calls = 0
    /\ f_result = <<>>
    /\ f_first = <<>>

FusionRest ==
    /\ f_lexical = <<>> /\ f_semantic = <<>> /\ f_k = 0
    /\ f_calls = 0 /\ f_result = <<>> /\ f_first = <<>>

\* the parts a specification does not exercise rest in one fixed state
GateRest == GateStart({MaxPermits})
HandlerRest ==
    /\ h_pc = "start"
    /\ h_req = [n |-> 1, top_k |-> NoneTopK]
    /\ h_scores = <<>>
    /\ h_resp = NoAnswer


\* the environments of the retrieval service: DATABASE_URL is required
QueryEnvs ==
    {[DATABASE_URL |-> "db"], [DATABASE_URL |-> "db", RRF_K |-> 10],
     [DATABASE_URL |-> "db", RRF_K |-> RrfKDefault]}

QueryInit ==
    /\ q_env \in QueryEnvs
    /\ q_settings = from_env(q_env)
    /\ q_req \in [blank : BOOLEAN, k : 1..MaxK, mode : {"lexical", "semantic", "hybrid"}]
    /\ q_pc = "received"
    /\ q_lex = "none" /\ q_emb = "none" /\ q_sem = "none"
    /\ q_lexical = <<>> /\ q_semantic = <<>>
    /\ q_resp = NoResults

QueryRest ==
    /\ q_env = [DATABASE_URL |-> "db"]
    /\ q_settings = from_env(q_env)
    /\ q_req = [blank |-> TRUE, k |-> 1, mode |-> "hybrid"]
    /\ q_pc = "received"
    /\ q_lex = "none" /\ q_emb = "none" /\ q_sem = "none"
    /\ q_lexical = <<>> /\ q_semantic = <<>>
    /\ q_resp = NoResults

\* the environments of ingestion runs
IngestEnvs ==
    {[DATABASE_URL |-> "db", CHUNK_SIZE |-> size, CHUNK_OVERLAP |-> overlap] :
        size \in 2..MaxChunkSize, overlap \in 0..MaxChunkOverlap}

\* the texts of source records: "w1 w2. w3. w4" and
\* "w1.\r\n\n\n\nw2 w3.\nw4."
IngestTexts ==
    {<<Word(1, FALSE), Word(2, TRUE), Word(3, TRUE), Word(4, FALSE)>>,
     <<Word(1, TRUE), CRLF, NL, NL, NL, Word(2, FALSE), Word(3, TRUE), NL, Word(4, TRUE)>>}

Items == [source_id : 1..NumSources, title : {"t1", "t2"}, url : {"u1"}, text : IngestTexts]

\* what a run loads: one item per source record, of some of the sources, in
\* the order the datasets complete
Loads ==
    {items \in UNION {[1..n -> Items] : n \in 1..NumSources} :
        \A i, j \in 1..Len(items) : items[i].source_id = items[j].source_id => i = j}

IngestInit ==
    /\ documents = <<>>
    /\ chunks = <<>>
    /\ doc_seq = 1
    /\ chunk_seq = 1
    /\ i_pc = "idle"
    /\ i_settings = from_env([DATABASE_URL |-> "db"])
    /\ i_results = <<>>
    /\ i_runs = 0
    /\ i_index = FALSE
    /\ i_latest = [s \in 1..NumSources |-> <<>>]
    /\ i_parsed = <<>>
    /\ i_failed = FALSE

IngestRest == IngestInit

\* the texts given to chunk_text: every sequence of up to MaxTokens tokens, a
\* token being a word that ends a sentence or not, "\n" or "\r\n"; the word at
\* position i is word i
TokenKinds == {"word", "stop", "lf", "crlf"}

TokenAt(kind, i) ==
    IF kind = "word" THEN Word(i, FALSE)
    ELSE IF kind = "stop" THEN Word(i, TRUE)
    ELSE IF kind = "lf" THEN NL
    ELSE CRLF

Texts ==
    {[i \in 1..Len(kinds) |-> TokenAt(kinds[i], i)] :
        kinds \in UNION {[1..n -> TokenKinds] : n \in 0..MaxTokens}}

ChunkerInit ==
    /\ c_text \in Texts
    /\ c_size \in 1..MaxChunkSize
    /\ c_overlap \in 0..MaxChunkOverlap
    /\ c_pc = "input"
    /\ c_chunks = <<>>

ChunkerRest ==
    /\ c_text = <<>> /\ c_size = 1 /\ c_overlap = 0 /\ c_pc = "input" /\ c_chunks = <<>>

\* what callers pass for a source record: its first crawl, the same text under
\* a new title and url, and a new text under the first title and url
Crawls ==
    {[title |-> "t1", url |-> "u1", text |-> <<Word(1, TRUE)>>],
     [title |-> "t2", url |-> "u2", text |-> <<Word(1, TRUE)>>],
     [title |-> "t1", url |-> "u1", text |-> <<Word(1, TRUE), Word(2, TRUE)>>]}

UpsertInit ==
    /\ u_documents = <<>>
    /\ u_seq = 1
    /\ u_calls = 0
    /\ u_call = NoCall
    /\ u_first = [s \in 1..NumSources |-> 0]

UpsertRest == UpsertInit

UpsertFrame == UNCHANGED <<gate_vars, handler_vars, fusion_vars, query_vars, ingest_vars, chunker_vars, startup_vars, embedder_vars>>

StartupInit ==
    /\ s_app = "starting"
    /\ s_cache = "empty"
    /\ s_warm = "pending"
    /\ s_probes = 0
    /\ s_health = "none"
    /\ s_rpc = [c \in Clients |-> "idle"]
    /\ s_rstatus = [c \in Clients |-> 0]

StartupRest == StartupInit

StartupFrame == UNCHANGED <<gate_vars, handler_vars, fusion_vars, query_vars, ingest_vars, chunker_vars, upsert_vars, embedder_vars>>

EmbedderInit ==
    /\ e_app = "starting"
    /\ e_concurrency \in 1..MaxEmbedConcurrency
    /\ e_embedder = 0
    /\ e_started = 0
    /\ e_built = 0
    /\ e_permits = 0
    /\ e_pc = [q \in Queries |-> "idle"]
    /\ e_handle = [q \in Queries |-> 0]

EmbedderRest ==
    /\ e_app = "starting"
    /\ e_concurrency = 1
    /\ e_embedder = 0
    /\ e_started = 0
    /\ e_built = 0
    /\ e_permits = 0
    /\ e_pc = [q \in Queries |-> "idle"]
    /\ e_handle = [q \in Queries |-> 0]

EmbedderFrame == UNCHANGED <<gate_vars, handler_vars, fusion_vars, query_vars, ingest_vars, chunker_vars, upsert_vars, startup_vars>>

ChunkerFrame == UNCHANGED <<gate_vars, handler_vars, fusion_vars, query_vars, ingest_vars, upsert_vars, startup_vars, embedder_vars>>

GateFrame == UNCHANGED <<handler_vars, fusion_vars, query_vars, ingest_vars, chunker_vars, upsert_vars, startup_vars, embedder_vars>>
HandlerFrame == UNCHANGED <<gate_vars, fusion_vars, query_vars, ingest_vars, chunker_vars, upsert_vars, startup_vars, embedder_vars>>
FusionFrame == UNCHANGED <<gate_vars, handler_vars, query_vars, ingest_vars, chunker_vars, upsert_vars, startup_vars, embedder_vars>>
QueryFrame == UNCHANGED <<gate_vars, handler_vars, fusion_vars, ingest_vars, chunker_vars, upsert_vars, startup_vars, embedder_vars>>
IngestFrame == UNCHANGED <<gate_vars, handler_vars, fusion_vars, query_vars, chunker_vars, upsert_vars, startup_vars, embedder_vars>>

\* the reranker service under concurrent /rerank requests
GateNext ==
    \/ Lifespan /\ GateFrame
    \/ \E r \in Requests, n \in DocCounts : Rerank_Reject(r, n) /\ GateFrame
    \/ \E r \in Requests, n \in DocCounts : Rerank_Enter(r, n) /\ GateFrame
    \/ \E r \in Requests, n \in DocCounts : Rerank_Block(r, n) /\ GateFrame
    \/ \E r \in Requests : Resume(r) /\ GateFrame
    \/ \E r \in Requests : CallScorer(r) /\ GateFrame
    \/ \E r \in Requests : LoadFail(r) /\ GateFrame
    \/ \E r \in Requests : ScoreReturn(r) /\ GateFrame
    \/ \E r \in Requests : ScoreRaise(r) /\ GateFrame
    \/ \E r \in Requests : CancelQueued(r) /\ GateFrame
    \/ \E r \in Requests : CancelAcquired(r) /\ GateFrame
    \/ \E r \in Requests : CancelScoring(r) /\ GateFrame
    \/ AbandonedFinish /\ GateFrame
    \/ \E r \in Requests : Respond(r) /\ GateFrame

InitGate == GateInit /\ HandlerRest /\ FusionRest /\ QueryRest /\ IngestRest /\ ChunkerRest /\ UpsertRest /\ StartupRest /\ EmbedderRest

SpecGate == InitGate /\ [][GateNext]_vars

\* scheduling of the reranker service: the event loop resumes every runnable
\* task, and every scoring call returns or raises; arrivals, cancellations and
\* the delivery of answers are up to the callers
TaskStep(r) ==
    /\ Resume(r) \/ CallScorer(r) \/ LoadFail(r) \/ ScoreReturn(r) \/ ScoreRaise(r)
    /\ GateFrame

FairSpecGate == SpecGate /\ \A r \in Requests : WF_vars(TaskStep(r))

\* one /rerank request from the document-count check to its answer
HandlerNext ==
    \/ H_Reject /\ HandlerFrame
    \/ H_Score /\ HandlerFrame
    \/ \E scores \in [1..h_req.n -> 0..MaxScore] : H_Scored(scores) /\ HandlerFrame
    \/ H_Failed /\ HandlerFrame

InitHandler == HandlerInit /\ GateRest /\ FusionRest /\ QueryRest /\ IngestRest /\ ChunkerRest /\ UpsertRest /\ StartupRest /\ EmbedderRest

SpecHandler == InitHandler /\ [][HandlerNext]_vars

\* reciprocal_rank_fusion called, and called again, on the same candidate lists
FusionNext == F_Call /\ FusionFrame

InitFusion == FusionInit /\ GateRest /\ HandlerRest /\ QueryRest /\ IngestRest /\ ChunkerRest /\ UpsertRest /\ StartupRest /\ EmbedderRest

SpecFusion == InitFusion /\ [][FusionNext]_vars

\* one /query request from its arrival to its answer
QueryNext ==
    \/ Q_Reject /\ QueryFrame
    \/ Q_LexicalMode /\ QueryFrame
    \/ Q_SemanticMode /\ QueryFrame
    \/ Q_HybridMode /\ QueryFrame
    \/ \E ids \in ShortIds : Q_LexicalDone(LexicalRows(ids)) /\ QueryFrame
    \/ Q_LexicalFail /\ QueryFrame
    \/ Q_EmbedDone /\ QueryFrame
    \/ Q_EmbedFail /\ QueryFrame
    \/ Q_LexicalAnswer /\ QueryFrame
    \/ Q_Embedded /\ QueryFrame
    \/ Q_Gathered /\ QueryFrame
    \/ \E ids \in ShortIds : Q_SemanticDone(SemanticRows(ids)) /\ QueryFrame
    \/ Q_SemanticFail /\ QueryFrame
    \/ Q_SemanticAnswer /\ QueryFrame
    \/ Q_Fuse /\ QueryFrame
    \/ Q_Raise /\ QueryFrame

InitQuery == QueryInit /\ GateRest /\ HandlerRest /\ FusionRest /\ IngestRest /\ ChunkerRest /\ UpsertRest /\ StartupRest /\ EmbedderRest

SpecQuery == InitQuery /\ [][QueryNext]_vars

\* ingestion runs one after the other against the same datastore
IngestNext ==
    \/ \E env \in IngestEnvs, results \in Loads : I_Start(env, results) /\ IngestFrame
    \/ \E parsed \in Loads : I_LoadFail(parsed) /\ IngestFrame
    \/ I_ProcessItem /\ IngestFrame
    \/ I_CreateIndex /\ IngestFrame

InitIngest == IngestInit /\ GateRest /\ HandlerRest /\ FusionRest /\ QueryRest /\ ChunkerRest /\ UpsertRest /\ StartupRest /\ EmbedderRest

SpecIngest == InitIngest /\ [][IngestNext]_vars

\* chunk_text called on a text
ChunkerNext == C_Chunk /\ ChunkerFrame

InitChunker == ChunkerInit /\ GateRest /\ HandlerRest /\ FusionRest /\ QueryRest /\ IngestRest /\ UpsertRest /\ StartupRest /\ EmbedderRest

SpecChunker == InitChunker /\ [][ChunkerNext]_vars

\* upsert_document called again and again
UpsertNext ==
    \E source_id \in 1..NumSources, crawl \in Crawls :
        U_Upsert(source_id, crawl.title, crawl.url, Checksum(crawl.text)) /\ UpsertFrame

InitUpsert == UpsertInit /\ GateRest /\ HandlerRest /\ FusionRest /\ QueryRest /\ IngestRest /\ ChunkerRest /\ StartupRest /\ EmbedderRest

SpecUpsert == InitUpsert /\ [][UpsertNext]_vars

\* the reranker service from startup on, with health probes and one request
\* per client
StartupNext ==
    \/ \E constructs, infers \in BOOLEAN : S_Lifespan(constructs, infers) /\ StartupFrame
    \/ S_Health /\ StartupFrame
    \/ \E c \in Clients : S_Rerank(c) /\ StartupFrame
    \/ \E c \in Clients, constructs \in BOOLEAN : S_GetReranker(c, constructs) /\ StartupFrame
    \/ \E c \in Clients, constructs \in BOOLEAN : S_GetRerankerFail(c, constructs) /\ StartupFrame
    \/ \E c \in Clients, status \in {200, 500} : S_Scored(c, status) /\ StartupFrame

InitStartup == StartupInit /\ GateRest /\ HandlerRest /\ FusionRest /\ QueryRest /\ IngestRest /\ ChunkerRest /\ UpsertRest /\ EmbedderRest

SpecStartup == InitStartup /\ [][StartupNext]_vars

\* the retrieval service from startup on, with concurrent /query requests
\* that embed their query
EmbedderNext ==
    \/ \E constructs \in BOOLEAN : E_Startup(constructs) /\ EmbedderFrame
    \/ \E q \in Queries : E_Acquire(q) /\ EmbedderFrame
    \/ \E q \in Queries : E_Check(q) /\ EmbedderFrame
    \/ \E q \in Queries : E_Construct(q) /\ EmbedderFrame
    \/ \E q \in Queries : E_ConstructFail(q) /\ EmbedderFrame
    \/ \E q \in Queries : E_Embed(q) /\ EmbedderFrame

InitEmbedder == EmbedderInit /\ GateRest /\ HandlerRest /\ FusionRest /\ QueryRest /\ IngestRest /\ ChunkerRest /\ UpsertRest /\ StartupRest

SpecEmbedder == InitEmbedder /\ [][EmbedderNext]_vars

\* ------------------------------------------------------------------------
\* Claims about the admission gate
\* ------------------------------------------------------------------------
HoldsPermit(r) ==
    \/ rpc[r] \in {"acquired", "scoring"}
    \/ rpc[r] = "waiting" /\ r \in sem.woken

Executing == Cardinality(threads) + abandoned

\* C1: with N permits, at most N Reranker.rerank calls execute at the same time,
\* for every interleaving of arrival, completion, failure and cancellation.
C1_AtMostNScoringCalls ==
    app = "running" => Executing <= gate_settings.rerank_concurrency

\* C7: no request within the ceiling is rejected because the permits are in use,
\* and every request that passed the check and that its caller does not abandon
\* eventually finishes with a result or an error.
C7_QueuedRequestsFinish ==
    /\ [](\A r \in Requests :
            rpc[r] = "rejected" => ndocs[r] > gate_settings.max_docs_per_request)
    /\ \A r \in Requests :
         (rpc[r] \in {"waiting", "acquired", "scoring"})
             ~> (rpc[r] \in {"done", "failed", "cancelled"})

\* two requests queued behind the permit holders; a release has handed its
\* permit to the first of them while the second still waits
C7_Witness ==
    /\ Len(sem.waiters) >= 2
    /\ sem.waiters[1] \in sem.woken
    /\ sem.waiters[2] \notin sem.woken
    /\ \E r \in Requests : rpc[r] = "done"

\* C8: free permits plus permits held by requests is N in every state, a
\* scoring call runs only under a permit, and with no request in flight all N
\* permits are free.
C8_PermitsConserved ==
    app = "running" =>
        /\ sem.value >= 0
        /\ sem.value + Cardinality({r \in Requests : HoldsPermit(r)})
               = gate_settings.rerank_concurrency
        /\ \A r \in threads : rpc[r] = "scoring"
        /\ (\A r \in Requests : rpc[r] \in Finished \cup {"idle"})
               => sem.value = gate_settings.rerank_concurrency

\* one request failed, one was cancelled, one succeeded, and every permit is back
C8_Witness ==
    /\ app = "running"
    /\ \E r \in Requests : rpc[r] = "failed"
    /\ \E r \in Requests : rpc[r] = "cancelled"
    /\ \E r \in Requests : rpc[r] = "done"
    /\ sem.value = gate_settings.rerank_concurrency

\* C10: a request over the ceiling is answered 422 without touching the gate or
\* the scorer; a request within the ceiling whose scoring call raises is
\* answered 500 with the detail "Reranking error".
C10_RejectAndScoringFailure ==
    /\ [](\A r \in Requests :
            /\ (rpc[r] # "idle" /\ ndocs[r] > gate_settings.max_docs_per_request)
                   => (rpc[r] = "rejected" /\ rstatus[r].status = 422)
            /\ rpc[r] = "rejected" => ndocs[r] > gate_settings.max_docs_per_request
            /\ rpc[r] = "failed" => rstatus[r] = ScoringError)
    /\ [][\A r \in Requests :
            /\ (rpc[r] = "idle" /\ rpc'[r] = "rejected")
                   => (sem' = sem /\ threads' = threads /\ rstatus'[r].status = 422)
            /\ (rpc[r] = "scoring" /\ rpc'[r] = "failed")
                   => (rstatus'[r] = ScoringError
                       /\ ndocs[r] <= gate_settings.max_docs_per_request)]_vars

\* one request was rejected while another, within the ceiling, failed in scoring
C10_Witness ==
    /\ \E r \in Requests : rpc[r] = "rejected" /\ rstatus[r].status = 422
    /\ \E r \in Requests : rpc[r] = "failed" /\ rstatus[r] = ScoringError
                           /\ reranker_loaded

\* ------------------------------------------------------------------------
\* Claims about the /rerank response
\* ------------------------------------------------------------------------
\* document a comes before document b: higher score, or equal score and earlier input
RankedBefore(a, b) ==
    \/ h_scores[a] > h_scores[b]
    \/ h_scores[a] = h_scores[b] /\ a < b

ExpectedCount ==
    LET wanted == IF h_req.top_k # NoneTopK THEN h_req.top_k ELSE h_req.n
    IN IF wanted < h_req.n THEN wanted ELSE h_req.n

\* C9: the answer lists the first m = min(top_k or n, n) documents in the order
\* "score descending, equal scores in input order", the i-th with rank i, no
\* document twice, returned_count = m and reranked_count = n.
C9_RerankResponseOrdered ==
    h_pc = "done" =>
        LET res == h_resp.results
            listed == {res[i].doc : i \in 1..Len(res)}
        IN /\ h_resp.status = 200
           /\ Len(res) = ExpectedCount
           /\ h_resp.returned_count = ExpectedCount
           /\ h_resp.reranked_count = h_req.n
           /\ \A i \in 1..Len(res) :
                /\ res[i].rank = i
                /\ res[i].doc \in 1..h_req.n
                /\ res[i].reranker_score = h_scores[res[i].doc]
           /\ \A i, j \in 1..Len(res) : i < j => RankedBefore(res[i].doc, res[j].doc)
           /\ \A d \in (1..h_req.n) \ listed :
                \A i \in 1..Len(res) : RankedBefore(res[i].doc, d)

\* three documents, the first and the last tied above the second, top_k cuts one off
C9_Witness ==
    /\ h_pc = "done"
    /\ h_req.n = 3 /\ h_req.top_k = 2
    /\ h_scores = <<1, 0, 1>>
    /\ Len(h_resp.results) = 2
    /\ h_resp.results[1].doc = 1 /\ h_resp.results[2].doc = 3

\* ------------------------------------------------------------------------
\* Claims about reciprocal rank fusion
\* ------------------------------------------------------------------------
IdsOf(list) == [i \in 1..Len(list) |-> list[i].chunk_id]

NoRepeats(list) == \A i, j \in 1..Len(list) : list[i].chunk_id = list[j].chunk_id => i = j

\* the chunk ids of either list, first seen first
UnionIds ==
    IdsOf(f_lexical)
        \o IdsOf(SelectSeq(f_semantic,
                           LAMBDA c : \A i \in 1..Len(f_lexical) : f_lexical[i].chunk_id # c.chunk_id))

\* 1/(rrf_k + position) of cid in list, 0 when the list does not hold it
ContributionIn(list, cid) ==
    LET at == {i \in 1..Len(list) : list[i].chunk_id = cid}
    IN IF at = {} THEN <<0, 1>> ELSE <<1, RrfKDefault + Min(at)>>

ExpectedScore(cid) == RatAdd(ContributionIn(f_lexical, cid), ContributionIn(f_semantic, cid))

SeenAt(cid) == Min({i \in 1..Len(UnionIds) : UnionIds[i] = cid})

FusedBefore(a, b) ==
    \/ RatLt(ExpectedScore(b), ExpectedScore(a))
    \/ RatEq(ExpectedScore(a), ExpectedScore(b)) /\ SeenAt(a) < SeenAt(b)

\* C4: with lists free of repeats (either possibly empty) and k at least the
\* size of their union, every chunk id of either list is in the result exactly
\* once, with the sum of its per-list contributions 1/(rrf_k + position) as score.
C4_FusionComplete ==
    (f_calls > 0 /\ NoRepeats(f_lexical) /\ NoRepeats(f_semantic) /\ f_k >= Len(UnionIds)) =>
        \A n \in 1..Len(UnionIds) :
            LET at == {i \in 1..Len(f_result) : f_result[i].chunk_id = UnionIds[n]}
            IN /\ Cardinality(at) = 1
               /\ \A i \in at : RatEq(f_result[i].score, ExpectedScore(UnionIds[n]))

\* C5: for non-empty lists the result is the first min(k, size of the union)
\* entries of the union by fused score descending, equal scores first seen
\* first, on the sort path and on the heapq.nlargest path alike; a repeated
\* call returns the same; lexical [1, 2] and semantic [2, 3] give [2, 1, 3].
C5_FusionOrder ==
    (f_calls > 0 /\ Len(f_lexical) > 0 /\ Len(f_semantic) > 0) =>
        LET ids == IdsOf(f_result)
            listed == {ids[i] : i \in 1..Len(ids)}
            all == {UnionIds[i] : i \in 1..Len(UnionIds)}
        IN /\ Len(ids) = (IF f_k < Len(UnionIds) THEN f_k ELSE Len(UnionIds))
           /\ listed \subseteq all
           /\ \A i, j \in 1..Len(ids) : i < j => FusedBefore(ids[i], ids[j])
           /\ \A c \in all \ listed : \A i \in 1..Len(ids) : FusedBefore(ids[i], c)
           /\ \A i \in 1..Len(ids) : RatEq(f_result[i].score, ExpectedScore(ids[i]))
           /\ f_calls >= 2 => f_result = f_first
           /\ (IdsOf(f_lexical) = <<1, 2>> /\ IdsOf(f_semantic) = <<2, 3>> /\ f_k = 3)
                  => ids = <<2, 1, 3>>

\* the heapq.nlargest path, called twice: the union is larger than 10 k with
\* k = 2, and the two rank-1 chunks tie, the lexical one first
C5_Witness ==
    /\ f_calls = 2
    /\ f_k = 2
    /\ Len(UnionIds) > f_k * HeapFactor
    /\ IdsOf(f_result) = <<1, MaxLong + 1>>
    /\ RatEq(f_result[1].score, f_result[2].score)

\* ------------------------------------------------------------------------
\* Claims about the /query handler
\* ------------------------------------------------------------------------
\* the RRF constant the configuration asks for: RRF_K when set, else 60
ConfiguredRrfK == IF "RRF_K" \in DOMAIN q_env THEN q_env.RRF_K ELSE RrfKDefault

\* C2: a hybrid request with a non-empty query whose lexical search, embedding
\* and semantic search all succeeded is answered 200 with
\* reciprocal_rank_fusion(lexical, semantic, k, rrf_k), rrf_k the configured
\* constant, 60 when the configuration does not set it.
C2_HybridReturnsFusion ==
    (/\ q_pc = "done"
     /\ q_req.mode = "hybrid"
     /\ ~q_req.blank
     /\ q_lex = "done" /\ q_emb = "done" /\ q_sem = "done") =>
        /\ q_resp.status = 200
        /\ q_resp.results
               = reciprocal_rank_fusion(LexicalRows(IdsOf(q_lexical)),
                                        SemanticRows(IdsOf(q_semantic)),
                                        q_req.k, ConfiguredRrfK).results

\* C6: in hybrid mode the semantic search depends on the query embedding only:
\* once the embedding has finished the semantic search can start although the
\* lexical search is still running; and a fused answer is given only after
\* both candidate lists are there.
C6_SemanticIndependentOfLexical ==
    /\ (q_req.mode = "hybrid" /\ q_pc = "gather" /\ q_emb = "done" /\ q_lex = "running")
           => ENABLED Q_Gathered
    /\ (q_req.mode = "hybrid" /\ q_resp.status = 200) => (q_lex = "done" /\ q_sem = "done")

\* ------------------------------------------------------------------------
\* Claims about ingestion
\* ------------------------------------------------------------------------
\* the chunk rows a document owns, in chunk_index order then id order
ChunksOwned(doc_id) == SelectSeq(chunks, LAMBDA row : row.document_id = doc_id)

\* C3: between runs, the chunk rows owned by every document are exactly the
\* chunks of the latest run over its source record: same count, content and
\* chunk_index order (so a re-run over an unchanged source changes nothing).
C3_ChunksAreLatestRun ==
    i_pc = "idle" =>
        \A d \in 1..Len(documents) :
            LET owned == ChunksOwned(documents[d].id)
                latest == i_latest[documents[d].source_id]
            IN /\ Len(owned) = Len(latest)
               /\ \A n \in 1..Len(owned) :
                      /\ owned[n].chunk_index = n - 1
                      /\ owned[n].content = latest[n].content
                      /\ owned[n].token_count = latest[n].token_count

\* ------------------------------------------------------------------------
\* Claims about the chunker
\* ------------------------------------------------------------------------
\* the sentences of the text, paragraph by paragraph, in their order
InputSentences ==
    LET paragraphs == split_paragraphs(clean_text(c_text))
    IN Join([n \in 1..Len(paragraphs) |-> split_sentences(paragraphs[n])])

WordsOf(content) == {content[i] : i \in 1..Len(content)}

\* chunk n without the words carried over from chunk n - 1 (every word of a
\* text is a different word)
FreshPart(n) ==
    IF n = 1 THEN c_chunks[1].content
    ELSE SelectSeq(c_chunks[n].content, LAMBDA w : w \notin WordsOf(c_chunks[n - 1].content))

\* C11: every chunk has token_count <= chunk_size, unless it is exactly one
\* sentence of the text whose own token count exceeds chunk_size.
C11_ChunkWithinSize ==
    c_pc = "chunked" =>
        \A n \in 1..Len(c_chunks) :
            \/ c_chunks[n].token_count <= c_size
            \/ \E i \in 1..Len(InputSentences) :
                  /\ c_chunks[n].content = InputSentences[i]
                  /\ Len(InputSentences[i]) > c_size

\* C12: the chunks without their carried-over leading sentences, put one
\* after the other, are the sentences of the text in their order, each once;
\* each such part is made of whole sentences (no sentence is cut, however
\* large); a text without words gives no chunk.
C12_ChunksCoverText ==
    c_pc = "chunked" =>
        /\ Join([n \in 1..Len(c_chunks) |-> FreshPart(n)]) = Join(InputSentences)
        /\ \A n \in 1..Len(c_chunks) :
              \/ FreshPart(n) = <<>>
              \/ \E i, j \in 1..Len(InputSentences) :
                    i <= j /\ FreshPart(n) = Join(SubSeq(InputSentences, i, j))
        /\ \A n \in 1..Len(c_chunks) :
              c_chunks[n].token_count = Len(c_chunks[n].content)
        /\ InputSentences = <<>> => c_chunks = <<>>

\* chunk 2 starts with a sentence carried over from chunk 1 and goes on with a
\* sentence larger than chunk_size
C12_Witness ==
    /\ c_pc = "chunked"
    /\ Len(c_chunks) = 2
    /\ c_overlap > 0
    /\ FreshPart(2) # c_chunks[2].content
    /\ Len(FreshPart(2)) > c_size

\* C17: every chunk holds a sentence that was not carried over from the chunk
\* before it; "One. Two. Three. Four." with chunk_size 2 and chunk_overlap 1
\* gives "One. Two.", "Two. Three.", "Three. Four." and nothing else.
C17_NoOverlapOnlyChunk ==
    c_pc = "chunked" =>
        /\ \A n \in 1..Len(c_chunks) : FreshPart(n) # <<>>
        /\ (/\ c_text = <<Word(1, TRUE), Word(2, TRUE), Word(3, TRUE), Word(4, TRUE)>>
            /\ c_size = 2
            /\ c_overlap = 1)
               => [n \in 1..Len(c_chunks) |-> c_chunks[n].content]
                      = << <<Word(1, TRUE), Word(2, TRUE)>>,
                           <<Word(2, TRUE), Word(3, TRUE)>>,
                           <<Word(3, TRUE), Word(4, TRUE)>> >>

\* C13: when one source of a run fails to download or parse while the others
\* load, the run goes on: once it is over, every record the other sources gave
\* has its document with that record's checksum, and the vector-index step
\* has run.
C13_FailedSourceSkipped ==
    (i_pc = "idle" /\ i_failed) =>
        /\ \A n \in 1..Len(i_parsed) :
              \E d \in 1..Len(documents) :
                  /\ documents[d].source_id = i_parsed[n].source_id
                  /\ documents[d].checksum = Checksum(i_parsed[n].text)
                  /\ ChunksOwned(documents[d].id) # <<>>
        /\ i_index

\* ------------------------------------------------------------------------
\* Claims about upsert_document
\* ------------------------------------------------------------------------
RowsOf(source_id) == {i \in 1..Len(u_documents) : u_documents[i].source_id = source_id}

\* C14: there is at most one document row per source_id, and every upsert of
\* a source_id returns the id its first upsert returned: the row of that id
\* is still the row of the source_id, and no step changes the id or the
\* source_id of a row or removes a row.
C14_OneDocumentPerSource ==
    /\ [](/\ \A s \in 1..NumSources :
               /\ Cardinality(RowsOf(s)) <= 1
               /\ u_first[s] # 0 =>
                     \E i \in RowsOf(s) : u_documents[i].id = u_first[s]
          /\ u_calls > 0 => u_call.id = u_first[u_call.source_id]
          /\ \A i, j \in 1..Len(u_documents) :
                u_documents[i].id = u_documents[j].id => i = j)
    /\ [][/\ Len(u_documents') >= Len(u_documents)
          /\ \A i \in 1..Len(u_documents) :
                /\ u_documents'[i].id = u_documents[i].id
                /\ u_documents'[i].source_id = u_documents[i].source_id]_vars

\* two sources have a row, and the latest call was an upsert of the first
\* source again: it returned id 1 although the sequence has moved on
C14_Witness ==
    /\ u_calls = 3
    /\ Len(u_documents) = 2
    /\ u_call.existed
    /\ u_call.id = 1
    /\ u_seq = 4

\* C15: after upsert_document on a source_id that had a row, the row's title,
\* url and checksum are the values of the call, its id and source_id are as
\* before.
C15_UpsertUpdatesMetadata ==
    (u_calls > 0 /\ u_call.existed) =>
        \E i \in RowsOf(u_call.source_id) :
            /\ u_documents[i].title = u_call.title
            /\ u_documents[i].url = u_call.url
            /\ u_documents[i].checksum = u_call.checksum
            /\ u_documents[i].id = u_first[u_call.source_id]

\* ------------------------------------------------------------------------
\* Claims about the reranker service's startup
\* ------------------------------------------------------------------------
\* C16: startup completes whether or not the model loaded or warmed; from
\* then on GET /health is answered, always with status ok, and POST /rerank
\* is accepted, whatever the state of the model cache; a request that finds
\* the cache empty has the model loaded again, and the load can succeed.
C16_StartupSurvivesWarmupFailure ==
    /\ s_app = "starting" => ENABLED S_Lifespan(FALSE, FALSE)
    /\ s_warm # "pending" => s_app = "running"
    /\ s_health \in {"none", "ok"}
    /\ (s_app = "running" /\ s_probes < MaxProbes) => ENABLED S_Health
    /\ \A c \in Clients :
          /\ (s_app = "running" /\ s_rpc[c] = "idle") => ENABLED S_Rerank(c)
          /\ (s_rpc[c] = "acquired" /\ s_cache # "loaded") => ENABLED S_GetReranker(c, TRUE)

\* the load failed at startup, /health has answered ok, one request has met a
\* failing load again (500), and a later one has loaded the model and scored
C16_Witness ==
    /\ s_warm = "load_failed"
    /\ s_health = "ok"
    /\ s_cache = "loaded"
    /\ \E c, d \in Clients : s_rstatus[c] = 500 /\ s_rstatus[d] = 200

\* ------------------------------------------------------------------------
\* Claims about the embedding model handle
\* ------------------------------------------------------------------------
\* C18: Embedder() never runs a second time after a construction has
\* succeeded or while one is in progress: at most one request is inside
\* Embedder() at a time, none is once an Embedder exists, and at most one
\* Embedder is ever built.
C18_EmbedderConstructedOnce ==
    LET constructing == {q \in Queries : e_pc[q] = "constructing"}
    IN  /\ Cardinality(constructing) <= 1
        /\ constructing # {} => e_built = 0
        /\ e_built <= 1

====
